---- MODULE Spec2Model ----
(***************************************************************************)
(* Model of the start-up sequence of the LVGL simulator (src/src/main.c):  *)
(* configure_simulator() parses the environment and the command line with  *)
(* getopt(), main() then initialises LVGL, the selected display back-end,  *)
(* optionally the EVDEV input back-end, builds the demo screen and enters  *)
(* the run loop.                                                           *)
(*                                                                         *)
(* C strings are sequences of one-character strings, so that getopt() and  *)
(* atoi() are computed character by character as libc computes them.       *)
(***************************************************************************)
EXTENDS Integers, Sequences, FiniteSets

VARIABLES
    argv,               \* argv[1..argc-1]: the arguments after the program name
    env_w,              \* getenv("LV_SIM_WINDOW_WIDTH"), NULL when unset
    env_h,              \* getenv("LV_SIM_WINDOW_HEIGHT"), NULL when unset
    posixly_correct,    \* getopt stops at the first non-option (POSIXLY_CORRECT / non-GNU libc)
    lv_use_evdev,       \* build configuration: #if LV_USE_EVDEV
    pc,                 \* position of the single control-flow thread
    optind,             \* getopt: index of the next argv element to scan
    nextchar,           \* getopt: position inside a clustered element, 0 when none is open
    selected_backend,   \* static char *selected_backend
    settings,           \* simulator_settings_t settings
    exit_status,        \* process exit status, NOT_EXITED while the process runs
    calls,              \* history: calls made to the collaborators, in order
    handled,            \* history: the options getopt delivered to the switch
    stdout,             \* history: what was printed to standard output
    stderr              \* history: what was printed to standard error

vars == <<argv, env_w, env_h, posixly_correct, lv_use_evdev, pc, optind, nextchar,
          selected_backend, settings, exit_status, calls, handled, stdout, stderr>>

(***************************************************************************)
(* Bounds and input pools                                                  *)
(***************************************************************************)
MaxArgs == 2

\* A null pointer: no C string is a single element longer than one character.
NULL == <<"(null)">>

\* The argv elements the command lines are built from.
ArgPool ==
    { <<"-", "b">>, <<"-", "W">>, <<"-", "H">>,
      <<"-", "B">>, <<"-", "V">>, <<"-", "h">>,
      <<"-", "f">>,
      <<"-", "m", "W", "7">>,          \* cluster: -m, then -W with attached argument
      <<"-", "W", "9">>,               \* -W with attached argument
      <<"-", "b", "X", "1", "1">>,     \* -b with attached argument, registered
      <<"-", "b", "S", "D", "L">>,
      <<"-", "b", "N", "O">>,          \* -b with attached argument, not registered
      <<"-", "5">>,                    \* a negative number, or the unknown option -5
      <<"S", "D", "L">>,
      <<"1", "2">>,
      <<"-", "-">> }

\* The values of LV_SIM_WINDOW_WIDTH and LV_SIM_WINDOW_HEIGHT.
EnvPool == { NULL, <<"3", "2", "0">>, <<"a", "b", "c">> }

RECURSIVE SeqsUpTo(_, _)
SeqsUpTo(S, n) ==
    IF n = 0 THEN { <<>> }
    ELSE LET shorter == SeqsUpTo(S, n - 1)
         IN  shorter \cup { Append(s, x) : s \in { t \in shorter : Len(t) = n - 1 }, x \in S }

(***************************************************************************)
(* Program constants                                                       *)
(***************************************************************************)
EXIT_SUCCESS == 0
EXIT_FAILURE == 1
NOT_EXITED == -1

\* getopt(argc, argv, "b:fmW:H:BVh")
optstring == <<"b", ":", "f", "m", "W", ":", "H", ":", "B", "V", "h">>

\* atoi(env_w ? env_w : "800"), atoi(env_h ? env_h : "480")
DefaultWidthStr == <<"8", "0", "0">>
DefaultHeightStr == <<"4", "8", "0">>

EVDEV == <<"E", "V", "D", "E", "V">>

\* The return value of getopt at the end of the options.
GETOPT_END == "-1"

(***************************************************************************)
(* Collaborators that live outside main.c                                  *)
(***************************************************************************)
\* The names driver_backends_register() puts in the registry.
RegisteredNames == { <<"S", "D", "L">>, <<"X", "1", "1">> }

\* driver_backends_is_supported(name): 1 when the name is registered, else 0.
driver_backends_is_supported(name) == IF name \in RegisteredNames THEN 1 ELSE 0

\* The values driver_backends_init_backend() may return: 0 on success,
\* the sentinel -1, or another non-zero failure code.
InitResults == { 0, -1, 1 }

(***************************************************************************)
(* libc: atoi                                                              *)
(***************************************************************************)
DigitChars == <<"0", "1", "2", "3", "4", "5", "6", "7", "8", "9">>
IsDigit(c) == \E k \in 1..10 : DigitChars[k] = c
DigitVal(c) == (CHOOSE k \in 1..10 : DigitChars[k] = c) - 1
IsSpace(c) == c \in { " ", "\t", "\n" }

RECURSIVE SkipSpace(_, _)
SkipSpace(s, i) ==
    IF i <= Len(s) /\ IsSpace(s[i]) THEN SkipSpace(s, i + 1) ELSE i

RECURSIVE AtoiDigits(_, _, _)
AtoiDigits(s, i, acc) ==
    IF i <= Len(s) /\ IsDigit(s[i])
    THEN AtoiDigits(s, i + 1, acc * 10 + DigitVal(s[i]))
    ELSE acc

\* Leading white space, an optional sign, then digits up to the first
\* non-digit; 0 when there is no digit.  (Values stay far below INT_MAX.)
atoi(s) ==
    LET i == SkipSpace(s, 1)
    IN  IF i <= Len(s) /\ s[i] = "-" THEN 0 - AtoiDigits(s, i + 1, 0)
        ELSE IF i <= Len(s) /\ s[i] = "+" THEN AtoiDigits(s, i + 1, 0)
        ELSE AtoiDigits(s, i, 0)

(***************************************************************************)
(* libc: getopt                                                            *)
(***************************************************************************)
\* An element is an option element when it starts with '-' and is not "-".
IsOptionElem(a) == Len(a) >= 2 /\ a[1] = "-"

\* GNU getopt permutes argv: non-option elements are skipped over.
RECURSIVE SkipNonOptions(_, _)
SkipNonOptions(av, i) ==
    IF i <= Len(av) /\ ~IsOptionElem(av[i]) THEN SkipNonOptions(av, i + 1) ELSE i

InOptstring(c) == c # ":" /\ \E k \in 1..Len(optstring) : optstring[k] = c
TakesArg(c) ==
    \E k \in 1..Len(optstring) :
        optstring[k] = c /\ k < Len(optstring) /\ optstring[k + 1] = ":"

GetoptEnd(oi) ==
    [ret |-> GETOPT_END, optopt |-> "?", optarg |-> NULL, optind |-> oi, nextchar |-> 0]

\* Scan the option character at position pos of element cur.
GetoptScan(av, cur, pos) ==
    LET c == av[cur][pos]
        last == pos = Len(av[cur])
        stepInd == IF last THEN cur + 1 ELSE cur
        stepChar == IF last THEN 0 ELSE pos + 1
    IN  IF ~InOptstring(c)
        THEN [ret |-> "?", optopt |-> c, optarg |-> NULL,
              optind |-> stepInd, nextchar |-> stepChar]
        ELSE IF ~TakesArg(c)
        THEN [ret |-> c, optopt |-> "?", optarg |-> NULL,
              optind |-> stepInd, nextchar |-> stepChar]
        ELSE IF ~last
        THEN [ret |-> c, optopt |-> "?", optarg |-> SubSeq(av[cur], pos + 1, Len(av[cur])),
              optind |-> cur + 1, nextchar |-> 0]
        ELSE IF cur + 1 <= Len(av)
        THEN [ret |-> c, optopt |-> "?", optarg |-> av[cur + 1],
              optind |-> cur + 2, nextchar |-> 0]
        \* missing argument: optstring does not start with ':', so '?' is returned
        ELSE [ret |-> IF optstring[1] = ":" THEN ":" ELSE "?", optopt |-> c,
              optarg |-> NULL, optind |-> cur + 1, nextchar |-> 0]

\* One call of getopt(): the value returned and the new optopt, optarg,
\* optind and scanning position.
getopt(av, oi, nc, posix) ==
    IF nc # 0 THEN GetoptScan(av, oi, nc)
    ELSE LET i == IF posix THEN oi ELSE SkipNonOptions(av, oi)
         IN  IF i > Len(av) THEN GetoptEnd(i)
             ELSE IF ~IsOptionElem(av[i]) THEN GetoptEnd(i)
             ELSE IF av[i] = <<"-", "-">> THEN GetoptEnd(i + 1)
             ELSE GetoptScan(av, i, 2)

(***************************************************************************)
(* History helpers                                                         *)
(***************************************************************************)
Call(op, arg, ret) == [op |-> op, arg |-> arg, ret |-> ret]
\* flag is the option character that was scanned: optopt after an error,
\* else the value getopt returned.
Handled(g) ==
    [ret |-> g.ret, optarg |-> g.optarg,
     flag |-> IF g.ret \in { "?", ":" } THEN g.optopt ELSE g.ret]

\* simulator_util: die() reports the message and ends the process with a
\* failure status.
die(msg) ==
    /\ stderr' = Append(stderr, msg)
    /\ pc' = "exited"
    /\ exit_status' = EXIT_FAILURE

\* exit(EXIT_SUCCESS)
exit_success ==
    /\ pc' = "exited"
    /\ exit_status' = EXIT_SUCCESS

Inputs == <<argv, env_w, env_h, posixly_correct, lv_use_evdev>>

(***************************************************************************)
(* Init: the process image before main() runs                              *)
(***************************************************************************)
Init ==
    /\ argv \in SeqsUpTo(ArgPool, MaxArgs)
    /\ env_w \in EnvPool
    /\ env_h \in EnvPool
    /\ posixly_correct \in BOOLEAN
    /\ lv_use_evdev \in BOOLEAN
    /\ pc = "configure"
    /\ optind = 1
    /\ nextchar = 0
    /\ selected_backend = NULL
    /\ settings = [window_width |-> 0, window_height |-> 0]
    /\ exit_status = NOT_EXITED
    /\ calls = <<>>
    /\ handled = <<>>
    /\ stdout = <<>>
    /\ stderr = <<>>

(***************************************************************************)
(* configure_simulator                                                     *)
(***************************************************************************)
\* Mutant: driver_backends_register() is not called.
ConfigureStart_NoRegister ==
    /\ pc = "configure"
    /\ selected_backend' = NULL
    /\ settings' = [window_width  |-> atoi(IF env_w # NULL THEN env_w ELSE DefaultWidthStr),
                    window_height |-> atoi(IF env_h # NULL THEN env_h ELSE DefaultHeightStr)]
    /\ pc' = "getopt"
    /\ UNCHANGED <<Inputs, optind, nextchar, exit_status, calls, handled, stdout, stderr>>

\* Lines 94-103: reset the selection, register the back-ends, take the
\* window size from the environment or the built-in defaults.
ConfigureStart ==
    /\ pc = "configure"
    /\ selected_backend' = NULL
    /\ calls' = Append(calls, Call("driver_backends_register", NULL, 0))
    /\ settings' = [window_width  |-> atoi(IF env_w # NULL THEN env_w ELSE DefaultWidthStr),
                    window_height |-> atoi(IF env_h # NULL THEN env_h ELSE DefaultHeightStr)]
    /\ pc' = "getopt"
    /\ UNCHANGED <<Inputs, optind, nextchar, exit_status, handled, stdout, stderr>>

\* The call of getopt at the head of the loop.
NextOpt == getopt(argv, optind, nextchar, posixly_correct)

\* What every iteration of the loop does before the switch.
Deliver(g) ==
    /\ pc = "getopt"
    /\ optind' = g.optind
    /\ nextchar' = g.nextchar
    /\ handled' = Append(handled, Handled(g))
    /\ UNCHANGED Inputs

\* getopt returned -1: the loop ends and configure_simulator returns.
ParseDone ==
    /\ pc = "getopt"
    /\ NextOpt.ret = GETOPT_END
    /\ pc' = "lv_init"
    /\ optind' = NextOpt.optind
    /\ nextchar' = NextOpt.nextchar
    /\ UNCHANGED <<Inputs, selected_backend, settings, exit_status, calls, handled,
                   stdout, stderr>>

\* case 'h'
CaseUsage ==
    /\ NextOpt.ret = "h"
    /\ Deliver(NextOpt)
    /\ stdout' = Append(stdout, "usage")
    /\ exit_success
    /\ UNCHANGED <<selected_backend, settings, calls, stderr>>

\* case 'V'
CaseVersion ==
    /\ NextOpt.ret = "V"
    /\ Deliver(NextOpt)
    /\ stdout' = Append(stdout, "version")
    /\ exit_success
    /\ UNCHANGED <<selected_backend, settings, calls, stderr>>

\* Mutant: case 'B' prints the list and breaks instead of exiting.
CaseListBackends_NoExit ==
    /\ NextOpt.ret = "B"
    /\ Deliver(NextOpt)
    /\ calls' = Append(calls, Call("driver_backends_print_supported", NULL, 0))
    /\ stdout' = Append(stdout, "backends")
    /\ UNCHANGED <<pc, exit_status, selected_backend, settings, stderr>>

\* case 'B'
CaseListBackends ==
    /\ NextOpt.ret = "B"
    /\ Deliver(NextOpt)
    /\ calls' = Append(calls, Call("driver_backends_print_supported", NULL, 0))
    /\ stdout' = Append(stdout, "backends")
    /\ exit_success
    /\ UNCHANGED <<selected_backend, settings, stderr>>

\* Mutant: case 'b' takes the name without asking the registry.
CaseBackend_NoValidation ==
    /\ NextOpt.ret = "b"
    /\ Deliver(NextOpt)
    /\ selected_backend' = NextOpt.optarg
    /\ UNCHANGED <<pc, exit_status, stderr, calls, settings, stdout>>

\* Mutant: case 'b' keeps the first name given and ignores the later ones.
CaseBackend_KeepsFirst ==
    /\ NextOpt.ret = "b"
    /\ Deliver(NextOpt)
    /\ LET name == NextOpt.optarg
           ok == driver_backends_is_supported(name)
       IN  /\ calls' = Append(calls, Call("driver_backends_is_supported", name, ok))
           /\ IF ok = 0
              THEN /\ die("error no such backend")
                   /\ UNCHANGED selected_backend
              ELSE /\ selected_backend' = IF selected_backend = NULL THEN name
                                          ELSE selected_backend
                   /\ UNCHANGED <<pc, exit_status, stderr>>
    /\ UNCHANGED <<settings, stdout>>

\* case 'b'
CaseBackend ==
    /\ NextOpt.ret = "b"
    /\ Deliver(NextOpt)
    /\ LET name == NextOpt.optarg
           ok == driver_backends_is_supported(name)
       IN  /\ calls' = Append(calls, Call("driver_backends_is_supported", name, ok))
           /\ IF ok = 0
              THEN /\ die("error no such backend")
                   /\ UNCHANGED selected_backend
              ELSE /\ selected_backend' = name
                   /\ UNCHANGED <<pc, exit_status, stderr>>
    /\ UNCHANGED <<settings, stdout>>

\* case 'W'
CaseWidth ==
    /\ NextOpt.ret = "W"
    /\ Deliver(NextOpt)
    /\ settings' = [settings EXCEPT !.window_width = atoi(NextOpt.optarg)]
    /\ UNCHANGED <<pc, selected_backend, exit_status, calls, stdout, stderr>>

\* Mutant: case 'H' stores its argument in the width.
CaseHeight_WritesWidth ==
    /\ NextOpt.ret = "H"
    /\ Deliver(NextOpt)
    /\ settings' = [settings EXCEPT !.window_width = atoi(NextOpt.optarg)]
    /\ UNCHANGED <<pc, selected_backend, exit_status, calls, stdout, stderr>>

\* case 'H'
CaseHeight ==
    /\ NextOpt.ret = "H"
    /\ Deliver(NextOpt)
    /\ settings' = [settings EXCEPT !.window_height = atoi(NextOpt.optarg)]
    /\ UNCHANGED <<pc, selected_backend, exit_status, calls, stdout, stderr>>

\* case '?': unknown option, or an option whose argument is missing.
\* (case ':' is never taken: getopt returns ':' only when optstring starts
\* with ':'.)
CaseUnknown ==
    /\ NextOpt.ret = "?"
    /\ Deliver(NextOpt)
    /\ stdout' = Append(stdout, "usage")
    /\ die("Unknown option")
    /\ UNCHANGED <<selected_backend, settings, calls>>

\* An option getopt accepts for which the switch has no case ('f', 'm'):
\* nothing is done and the loop goes on.
CaseNoLabel ==
    /\ NextOpt.ret \notin { GETOPT_END, "h", "V", "B", "b", "W", "H", ":", "?" }
    /\ Deliver(NextOpt)
    /\ UNCHANGED <<pc, selected_backend, settings, exit_status, calls, stdout, stderr>>

(***************************************************************************)
(* main                                                                    *)
(***************************************************************************)
\* Mutant: main goes on to the back-end without calling lv_init().
LvInit_NotCalled ==
    /\ pc = "lv_init"
    /\ pc' = "init_backend"
    /\ UNCHANGED <<Inputs, optind, nextchar, selected_backend, settings, exit_status,
                   calls, handled, stdout, stderr>>

\* lv_init()
LvInit ==
    /\ pc = "lv_init"
    /\ calls' = Append(calls, Call("lv_init", NULL, 0))
    /\ pc' = "init_backend"
    /\ UNCHANGED <<Inputs, optind, nextchar, selected_backend, settings, exit_status,
                   handled, stdout, stderr>>

\* Mutant: the result of the primary init is not checked.
InitBackend_IgnoresFailure ==
    /\ pc = "init_backend"
    /\ \E r \in InitResults :
        calls' = Append(calls, Call("driver_backends_init_backend", selected_backend, r))
    /\ pc' = IF lv_use_evdev THEN "init_evdev" ELSE "scroll_test"
    /\ UNCHANGED <<Inputs, optind, nextchar, selected_backend, settings, exit_status,
                   handled, stdout, stderr>>

\* if (driver_backends_init_backend(selected_backend) == -1) die(...)
InitBackend ==
    /\ pc = "init_backend"
    /\ \E r \in InitResults :
        /\ calls' = Append(calls, Call("driver_backends_init_backend", selected_backend, r))
        /\ IF r = -1
           THEN die("Failed to initialize display backend")
           ELSE /\ pc' = IF lv_use_evdev THEN "init_evdev" ELSE "scroll_test"
                /\ UNCHANGED <<exit_status, stderr>>
    /\ UNCHANGED <<Inputs, optind, nextchar, selected_backend, settings, handled, stdout>>

\* Mutant: the result of the EVDEV init is not checked.
InitEvdev_IgnoresFailure ==
    /\ pc = "init_evdev"
    /\ \E r \in InitResults :
        calls' = Append(calls, Call("driver_backends_init_backend", EVDEV, r))
    /\ pc' = "scroll_test"
    /\ UNCHANGED <<Inputs, optind, nextchar, selected_backend, settings, exit_status,
                   handled, stdout, stderr>>

\* #if LV_USE_EVDEV: if (driver_backends_init_backend("EVDEV") == -1) die(...)
InitEvdev ==
    /\ pc = "init_evdev"
    /\ \E r \in InitResults :
        /\ calls' = Append(calls, Call("driver_backends_init_backend", EVDEV, r))
        /\ IF r = -1
           THEN die("Failed to initialize evdev")
           ELSE /\ pc' = "scroll_test"
                /\ UNCHANGED <<exit_status, stderr>>
    /\ UNCHANGED <<Inputs, optind, nextchar, selected_backend, settings, handled, stdout>>

\* lv_scroll_test(): builds the demo screen.
ScrollTest ==
    /\ pc = "scroll_test"
    /\ calls' = Append(calls, Call("lv_scroll_test", NULL, 0))
    /\ pc' = "run_loop"
    /\ UNCHANGED <<Inputs, optind, nextchar, selected_backend, settings, exit_status,
                   handled, stdout, stderr>>

\* driver_backends_run_loop(): entered, blocks while the back-end runs.
RunLoop ==
    /\ pc = "run_loop"
    /\ calls' = Append(calls, Call("driver_backends_run_loop", NULL, 0))
    /\ pc' = "running"
    /\ UNCHANGED <<Inputs, optind, nextchar, selected_backend, settings, exit_status,
                   handled, stdout, stderr>>

\* The run loop came back: return 0.
MainReturn ==
    /\ pc = "running"
    /\ pc' = "exited"
    /\ exit_status' = EXIT_SUCCESS
    /\ UNCHANGED <<Inputs, optind, nextchar, selected_backend, settings, calls,
                   handled, stdout, stderr>>

Next ==
    \/ ConfigureStart
    \/ ParseDone
    \/ CaseUsage
    \/ CaseVersion
    \/ CaseListBackends
    \/ CaseBackend
    \/ CaseWidth
    \/ CaseHeight
    \/ CaseUnknown
    \/ CaseNoLabel
    \/ LvInit
    \/ InitBackend
    \/ InitEvdev
    \/ ScrollTest
    \/ RunLoop
    \/ MainReturn

Spec == Init /\ [][Next]_vars

(***************************************************************************)
(* Vocabulary of the properties                                            *)
(***************************************************************************)
CallIdx(op) == { i \in DOMAIN calls : calls[i].op = op }
Called(op) == CallIdx(op) # {}
InitIdx == CallIdx("driver_backends_init_backend")

\* The options delivered so far whose switch case is op.
HandledIdx(op) == { i \in DOMAIN handled : handled[i].ret = op }
Last(S) == CHOOSE i \in S : \A j \in S : j <= i

\* The options the usage text documents.
RecognizedFlags == { "b", "W", "H", "B", "V", "h" }
InformationalFlags == { "h", "V", "B" }

\* handled[i] is a configuration error: an unsupported name given to -b,
\* an unknown flag or a missing argument.
IsConfigError(i) ==
    \/ handled[i].ret = "b" /\ handled[i].optarg \notin RegisteredNames
    \/ handled[i].ret \in { "?", ":" }

\* configure_simulator has returned to main.
ConfigureReturned == pc = "lv_init" \/ Called("lv_init")

ExitedWith(status) == pc = "exited" /\ exit_status = status
ExitedNonZero == pc = "exited" /\ exit_status # 0

(***************************************************************************)
(* C1                                                                      *)
(***************************************************************************)
\* C1: when '-b N' is processed with a name N that is not in the registry,
\* the process ends with a non-zero status during parsing: lv_init, the
\* back-end inits and the run loop are never called and selected_backend is
\* never N.
C1_UnsupportedBackendIsFatal ==
    \A i \in HandledIdx("b") :
        handled[i].optarg \notin RegisteredNames =>
            /\ ExitedNonZero
            /\ i = Len(handled)
            /\ ~Called("lv_init")
            /\ InitIdx = {}
            /\ ~Called("driver_backends_run_loop")
            /\ selected_backend # handled[i].optarg

C1_Witness ==
    /\ \E i \in HandledIdx("b") : handled[i].optarg \notin RegisteredNames
    /\ pc = "exited"

(***************************************************************************)
(* C2                                                                      *)
(***************************************************************************)
\* The element leaves an option waiting for its argument in the next one.
OpenArg(a) ==
    /\ TakesArg(a[Len(a)])
    /\ \A k \in 2..(Len(a) - 1) : ~TakesArg(a[k])

\* -B is on the command line as a flag: the element "-B", with only option
\* elements before it, none of them "--" and none taking it as its argument.
ArgvHasListFlag ==
    \E i \in DOMAIN argv :
        /\ argv[i] = <<"-", "B">>
        /\ \A j \in 1..(i - 1) :
            IsOptionElem(argv[j]) /\ argv[j] # <<"-", "-">> /\ ~OpenArg(argv[j])

\* C2 as stated: every command line that contains -B, at any position,
\* exits with status 0 and never calls a back-end init.
C2_AsClaimed ==
    ArgvHasListFlag =>
        /\ InitIdx = {}
        /\ pc = "exited" => exit_status = 0

\* C2 amended: when the parser processes -B (in particular whenever -B is
\* the first argument) the process exits with status 0 at once and no
\* back-end init is ever called.
C2_ListBackendsExitsZero ==
    /\ HandledIdx("B") # {} =>
        /\ ExitedWith(0)
        /\ Last(HandledIdx("B")) = Len(handled)
        /\ InitIdx = {}
    /\ (Len(argv) >= 1 /\ argv[1] = <<"-", "B">>) =>
        /\ pc \in { "configure", "getopt", "exited" }
        /\ InitIdx = {}
        /\ pc = "exited" => exit_status = 0

C2_Witness ==
    /\ HandledIdx("B") # {}
    /\ Len(handled) > 1
    /\ pc = "exited"

(***************************************************************************)
(* C3                                                                      *)
(***************************************************************************)
\* The dimension decided by flag (W or H), the environment value env and the
\* built-in default: the last flag wins, then the environment, then the
\* default.
ByPrecedence(flag, env, default) ==
    IF HandledIdx(flag) # {} THEN atoi(handled[Last(HandledIdx(flag))].optarg)
    ELSE IF env # NULL THEN atoi(env)
    ELSE default

\* C3: when configure_simulator returns, the width is the value of the last
\* -W, else of LV_SIM_WINDOW_WIDTH, else 800; the height is the value of the
\* last -H, else of LV_SIM_WINDOW_HEIGHT, else 480; neither depends on the
\* flag or the variable of the other.
C3_WindowSizePrecedence ==
    ConfigureReturned =>
        /\ settings.window_width = ByPrecedence("W", env_w, 800)
        /\ settings.window_height = ByPrecedence("H", env_h, 480)

C3_Witness ==
    /\ ConfigureReturned
    /\ Cardinality(HandledIdx("W")) = 2
    /\ env_w # NULL
    /\ env_h = NULL
    /\ settings.window_width = 9
    /\ settings.window_height = 480

(***************************************************************************)
(* C4                                                                      *)
(***************************************************************************)
\* C4 as stated: every flag outside {-b, -W, -H, -B, -V, -h}, and every
\* -b/-W/-H without its argument, ends the process during parsing with the
\* usage message and a non-zero status; no other flag is silently accepted.
C4_AsClaimed ==
    \A i \in DOMAIN handled :
        handled[i].flag \notin RecognizedFlags \/ handled[i].ret \in { "?", ":" } =>
            /\ i = Len(handled)
            /\ ExitedNonZero
            /\ \E k \in DOMAIN stdout : stdout[k] = "usage"
            /\ ~Called("lv_init")
            /\ ~Called("driver_backends_run_loop")

(***************************************************************************)
(* C5                                                                      *)
(***************************************************************************)
AuxInitIdx == { i \in InitIdx : calls[i].arg = EVDEV }
PrimaryInitIdx == InitIdx \ AuxInitIdx

RegistryOps ==
    { "driver_backends_is_supported", "driver_backends_print_supported",
      "driver_backends_init_backend", "driver_backends_run_loop" }

\* C6: driver_backends_register is called exactly once, and before every
\* other registry operation of the execution.
C6_RegisterOnceFirst ==
    /\ Cardinality(CallIdx("driver_backends_register")) <= 1
    /\ pc # "configure" => Cardinality(CallIdx("driver_backends_register")) = 1
    /\ \A i \in DOMAIN calls :
        calls[i].op \in RegistryOps =>
            \E j \in CallIdx("driver_backends_register") : j < i

C6_Witness ==
    /\ Called("driver_backends_is_supported")
    /\ Called("driver_backends_init_backend")
    /\ Called("driver_backends_run_loop")

C8_AsClaimed ==
    ConfigureReturned =>
        /\ settings.window_width > 0
        /\ settings.window_height > 0

(***************************************************************************)
(* C9                                                                      *)
(***************************************************************************)
\* The last option delivered ended the process during parsing.
ExitedWhileParsing ==
    /\ handled # <<>>
    /\ \/ handled[Len(handled)].ret \in InformationalFlags
       \/ IsConfigError(Len(handled))

InfoOutput(f) == IF f = "h" THEN "usage" ELSE IF f = "V" THEN "version" ELSE "backends"
Printed(what) == \E k \in DOMAIN stdout : stdout[k] = what

\* An informational flag exits 0 and nothing after it is looked at.
InformationalFlagDecides ==
    \A i \in DOMAIN handled :
        handled[i].ret \in InformationalFlags =>
            /\ i = Len(handled)
            /\ ExitedWith(0)
            /\ Printed(InfoOutput(handled[i].ret))

\* The back-end given to the primary init is that of the last -b.
LastBackendIsInitialized ==
    \A i \in PrimaryInitIdx :
        calls[i].arg = IF HandledIdx("b") = {} THEN NULL
                       ELSE handled[Last(HandledIdx("b"))].optarg

\* The informational flags that stand after the options scanned so far.
LaterInfoFlags ==
    { f \in InformationalFlags : \E j \in optind..Len(argv) : argv[j] = <<"-", f>> }

\* C10 as stated: options are processed left to right and the first
\* terminating option decides; an informational flag exits 0 without
\* validating what follows; a configuration error before an informational
\* flag exits non-zero and that flag's output is never printed; the last of
\* several supported -b names is the one passed to init.
C10_AsClaimed ==
    /\ InformationalFlagDecides
    /\ LastBackendIsInitialized
    /\ \A i \in DOMAIN handled :
        IsConfigError(i) =>
            /\ i = Len(handled)
            /\ ExitedNonZero
            /\ \A f \in LaterInfoFlags : ~Printed(InfoOutput(f))

\* C10 amended: as stated, except for the output: after a configuration
\* error no informational flag is processed, the version and the back-end
\* list are never printed, and the usage text is printed only by the
\* unknown-flag / missing-argument report itself, never after an unsupported
\* -b name.
C10_FirstTerminatingOptionDecides ==
    /\ InformationalFlagDecides
    /\ LastBackendIsInitialized
    /\ \A i \in DOMAIN handled :
        IsConfigError(i) =>
            /\ i = Len(handled)
            /\ ExitedNonZero
            /\ \A j \in DOMAIN handled : handled[j].ret \notin InformationalFlags
            /\ ~Printed("version")
            /\ ~Printed("backends")
            /\ Printed("usage") <=> handled[i].ret = "?"

C10_Witness ==
    /\ handled # <<>>
    /\ IsConfigError(Len(handled))
    /\ handled[Len(handled)].ret = "b"
    /\ LaterInfoFlags # {}
    /\ pc = "exited"

====
